---- MODULE Spec2Model ----
(***************************************************************************)
(* Model of the HTTP negotiation / request-guard layer of wirecloud:       *)
(*   src/src/wirecloud/commons/utils/http.py                               *)
(*   src/src/wirecloud/platform/workspace/routes.py                        *)
(*                                                                         *)
(* Python values are tagged tuples: <<"n">> is None, <<"s", text>> a str,  *)
(* <<"l", items>> a list, <<"d", pairs>> a dict in insertion order.        *)
(* HTTP header values and MIME types are atomic strings; the header value  *)
(* Absent stands for a header that the request does not carry.             *)
(***************************************************************************)
EXTENDS Integers, Sequences, FiniteSets, TLC

\* ------------------------------------------------------------------ bounds
MaxPathLen == 4     \* characters in a requested file_path
MaxGuards == 2      \* guards stacked on one handler

VARIABLES
    pc,                 \* "idle" between operations, "done" when one has finished
    op,                 \* the operation that ran last
    op_args,            \* its arguments
    ERROR_FORMATTERS,   \* the module-level formatter table of http.py
    extra_formats,      \* the caller's extra_formats mapping, as the call left it
    decorated,          \* the handler the last decoration produced
    imported,           \* import of workspace/routes.py: "no", "ok" or the exception
    routes,             \* the routes registered on workspace_router
    outcome,            \* what the operation raised or returned, the Request as it
                        \* left it, and the calls made of the undecorated handler
    download            \* what build_downloadfile_response decided

vars == <<pc, op, op_args, ERROR_FORMATTERS, extra_formats, decorated, imported, routes,
          outcome, download>>

\* ----------------------------------------------------------- Python values
None == <<"n">>
Str(s) == <<"s", s>>
List(items) == <<"l", items>>
Dict(pairs) == <<"d", pairs>>
IsNone(v) == v[1] = "n"
IsStr(v) == v[1] = "s"

Range(s) == {s[i] : i \in DOMAIN s}

\* dict lookup: the value stored under key k of the ordered pair list, or dflt
DictGet(pairs, k, dflt) ==
    IF \E i \in DOMAIN pairs : pairs[i][1] = k
    THEN pairs[CHOOSE i \in DOMAIN pairs : pairs[i][1] = k][2]
    ELSE dflt

DictHas(pairs, k) == \E i \in DOMAIN pairs : pairs[i][1] = k

DictKeys(pairs) == [i \in DOMAIN pairs |-> pairs[i][1]]

\* dict[k] = v: replaces in place when k is present, appends otherwise
DictSet(pairs, k, v) ==
    IF DictHas(pairs, k)
    THEN [i \in DOMAIN pairs |-> IF pairs[i][1] = k THEN <<k, v>> ELSE pairs[i]]
    ELSE Append(pairs, <<k, v>>)

\* dict.update(other)
RECURSIVE DictUpdate(_, _)
DictUpdate(pairs, other) ==
    IF other = <<>> THEN pairs
    ELSE DictUpdate(DictSet(pairs, Head(other)[1], Head(other)[2]), Tail(other))

\* list.remove(x): drops the first occurrence
RECURSIVE ListRemove(_, _)
ListRemove(s, x) ==
    IF s = <<>> THEN <<>>
    ELSE IF Head(s) = x THEN Tail(s)
    ELSE <<Head(s)>> \o ListRemove(Tail(s), x)

RECURSIVE Flatten(_)
Flatten(ss) == IF ss = <<>> THEN <<>> ELSE Head(ss) \o Flatten(Tail(ss))

RECURSIVE JoinWith(_, _)
JoinWith(ss, sep) ==
    IF ss = <<>> THEN <<>>
    ELSE IF Len(ss) = 1 THEN Head(ss)
    ELSE Head(ss) \o sep \o JoinWith(Tail(ss), sep)

\* ---------------------------------------------------------- mimeparser
\* (src/wirecloud/commons/utils/mimeparser.py is not part of the excerpt;
\*  modelled from section 4.1 of the specification.)
Absent == "<absent>"
Invalid == [type |-> "", subtype |-> "", params |-> {}, q |-> 0, ok |-> FALSE]

Mime(t, s, ps, q) == [type |-> t, subtype |-> s, params |-> ps, q |-> q, ok |-> TRUE]

Utf8 == {<<"charset", "utf-8">>}

\* one media range (a comma-separated segment); q is in tenths
parse_media_range(seg) ==
    CASE seg = "application/json" -> Mime("application", "json", {}, 10)
      [] seg = "application/xml" -> Mime("application", "xml", {}, 10)
      [] seg = "text/plain" -> Mime("text", "plain", {}, 10)
      [] seg = "text/html" -> Mime("text", "html", {}, 10)
      [] seg = "image/png" -> Mime("image", "png", {}, 10)
      [] seg = "application/json; charset=utf-8" -> Mime("application", "json", Utf8, 10)
      [] seg = "application/xml; charset=utf-8" -> Mime("application", "xml", Utf8, 10)
      [] seg = "text/plain; charset=utf-8" -> Mime("text", "plain", Utf8, 10)
      [] seg = "text/html; charset=utf-8" -> Mime("text", "html", Utf8, 10)
      [] seg = "*/*" -> Mime("*", "*", {}, 10)
      [] seg = "text/*" -> Mime("text", "*", {}, 10)
      [] seg = "application/json;q=0.5" -> Mime("application", "json", {}, 5)
      [] seg = "application/xml;q=0.9" -> Mime("application", "xml", {}, 9)
      [] seg = "text/plain;q=0" -> Mime("text", "plain", {}, 0)
      [] seg = "*/*;q=0.1" -> Mime("*", "*", {}, 1)
      [] OTHER -> Invalid

\* an Accept header value split on ","
AcceptSegments(header) ==
    CASE header = "application/json;q=0.5, application/xml;q=0.9" ->
             <<"application/json;q=0.5", "application/xml;q=0.9">>
      [] header = "text/plain;q=0, */*;q=0.1" -> <<"text/plain;q=0", "*/*;q=0.1">>
      [] header = "image/png, garbage" -> <<"image/png", "garbage">>
      [] OTHER -> <<header>>

\* parse_mime_type: (type/subtype, params) of a Content-Type value
parse_mime_type(value) ==
    LET m == parse_media_range(value) IN
    IF m.ok /\ m.type # "*" /\ m.subtype # "*"
    THEN [ok |-> TRUE,
          mimetype |-> CASE m.type = "application" /\ m.subtype = "json" -> "application/json"
                         [] m.type = "application" /\ m.subtype = "xml" -> "application/xml"
                         [] m.type = "text" /\ m.subtype = "plain" -> "text/plain"
                         [] m.type = "text" /\ m.subtype = "html" -> "text/html"
                         [] OTHER -> "image/png",
          params |-> m.params]
    ELSE [ok |-> FALSE, mimetype |-> "", params |-> {}]

\* does candidate c satisfy accept entry e
RangeMatches(c, e) ==
    /\ e.ok /\ c.ok
    /\ e.type = "*" \/ e.type = c.type
    /\ e.subtype = "*" \/ e.subtype = c.subtype
    /\ e.params \subseteq c.params

\* full match > subtype wildcard > full wildcard; more matched parameters rank higher
Specificity(e) ==
    (IF e.type # "*" THEN 100 ELSE 0) + (IF e.subtype # "*" THEN 10 ELSE 0)
        + Cardinality(e.params)

\* the parsed media ranges of an Accept header, in header order
ParsedRanges(header) ==
    [i \in DOMAIN AcceptSegments(header) |-> parse_media_range(AcceptSegments(header)[i])]

\* the index of the most specific range matching candidate c, 0 when none does
BestRange(c, ranges) ==
    IF \A i \in DOMAIN ranges : ~RangeMatches(c, ranges[i]) THEN 0
    ELSE CHOOSE i \in DOMAIN ranges :
             /\ RangeMatches(c, ranges[i])
             /\ \A j \in DOMAIN ranges :
                    RangeMatches(c, ranges[j]) =>
                        \/ Specificity(ranges[i]) > Specificity(ranges[j])
                        \/ (Specificity(ranges[i]) = Specificity(ranges[j]) /\ i <= j)

RangeScore(ranges, best) ==
    IF best = 0 THEN <<0, -1>> ELSE <<ranges[best].q, Specificity(ranges[best])>>

\* (quality, specificity) of the most specific entry matching the candidate
fitness_and_quality(candidate, ranges) ==
    RangeScore(ranges, BestRange(parse_media_range(candidate), ranges))

ScoreLess(a, b) == a[1] < b[1] \/ (a[1] = b[1] /\ a[2] < b[2])

\* the best-scored entry of supported, earlier entries winning ties
BestScored(supported, scores) ==
    IF \A i \in DOMAIN supported : scores[i][1] <= 0 THEN ""
    ELSE supported[CHOOSE i \in DOMAIN supported :
             /\ scores[i][1] > 0
             /\ \A j \in DOMAIN supported :
                    scores[j][1] > 0 =>
                        \/ ScoreLess(scores[j], scores[i])
                        \/ (scores[j] = scores[i] /\ i <= j)]

\* the supported type with the best score; "" when nothing matches with a
\* nonzero quality
best_match(supported, header) ==
    BestScored(supported,
               [i \in DOMAIN supported |->
                   fitness_and_quality(supported[i], ParsedRanges(header))])

\* ------------------------------------------------------------- requests
HeaderNames == {"X-Requested-With", "Accept", "Content-Type"}
Unset == "<unset>"

\* a fastapi Request: its headers and the attributes the guards attach to it
Request(xrw, accept, ctype) ==
    [none |-> FALSE,
     headers |-> [h \in HeaderNames |->
                     CASE h = "X-Requested-With" -> xrw
                       [] h = "Accept" -> accept
                       [] OTHER -> ctype],
     best_response_mimetype |-> Unset,
     mimetype |-> Unset]

\* the value None where a Request is expected
NoRequest == [Request(Absent, Absent, Absent) EXCEPT !.none = TRUE]

\* request.headers.get(name, dflt)
HeaderGet(request, name, dflt) ==
    IF request.headers[name] = Absent THEN dflt ELSE request.headers[name]

\* ------------------------------------------------------- serialized bodies
\* A body is a sequence of tokens: <<"p", x>> punctuation or markup,
\* <<"s", x>> a string literal or text node.
P(x) == <<"p", x>>
S(x) == <<"s", x>>

RECURSIVE JsonDumps(_)
JsonDumps(v) ==
    CASE v[1] = "s" -> <<S(v[2])>>
      [] v[1] = "n" -> <<P("null")>>
      [] v[1] = "l" ->
             <<P("[")>> \o JoinWith([i \in DOMAIN v[2] |-> JsonDumps(v[2][i])], <<P(",")>>)
                 \o <<P("]")>>
      [] OTHER ->
             <<P("{")>>
                 \o JoinWith([i \in DOMAIN v[2] |->
                                 <<S(v[2][i][1]), P(":")>> \o JsonDumps(v[2][i][2])],
                             <<P(",")>>)
                 \o <<P("}")>>

\* json.loads of a token sequence: <<value, remaining tokens>>
RECURSIVE ParseValue(_), ParseItems(_, _), ParseMembers(_, _)
ParseValue(ts) ==
    LET t == Head(ts) IN
    IF t[1] = "s" THEN <<Str(t[2]), Tail(ts)>>
    ELSE IF t = P("null") THEN <<None, Tail(ts)>>
    ELSE IF t = P("[") THEN ParseItems(Tail(ts), <<>>)
    ELSE ParseMembers(Tail(ts), <<>>)

ParseItems(ts, acc) ==
    IF Head(ts) = P("]") THEN <<List(acc), Tail(ts)>>
    ELSE IF Head(ts) = P(",") THEN ParseItems(Tail(ts), acc)
    ELSE LET r == ParseValue(ts) IN ParseItems(r[2], Append(acc, r[1]))

ParseMembers(ts, acc) ==
    IF Head(ts) = P("}") THEN <<Dict(acc), Tail(ts)>>
    ELSE IF Head(ts) = P(",") THEN ParseMembers(Tail(ts), acc)
    ELSE LET r == ParseValue(Tail(Tail(ts))) IN
         ParseMembers(r[2], DictSet(acc, Head(ts)[2], r[1]))

JsonLoads(ts) == ParseValue(ts)[1]

\* ------------------------------------------------------- error formatters
XmlElement(tag, inner) == <<P("<" \o tag \o ">")>> \o inner \o <<P("</" \o tag \o ">")>>

\* the children built for one key of a details mapping
XmlDetailValue(v) ==
    IF IsStr(v) THEN <<S(v[2])>>
    ELSE LET items == IF v[1] = "l" THEN v[2] ELSE [i \in DOMAIN v[2] |-> Str(v[2][i][1])]
         IN  Flatten([i \in DOMAIN items |-> XmlElement("element", <<S(items[i][2])>>)])

get_xml_error_response(request, mimetype, status_code, context) ==
    LET details == DictGet(context, "details", None)
        description == XmlElement("description", <<S(DictGet(context, "error_msg", None)[2])>>)
        details_element ==
            IF IsNone(details) THEN <<>>
            ELSE IF IsStr(details) THEN XmlElement("details", <<S(details[2])>>)
            ELSE XmlElement("details",
                     Flatten([i \in DOMAIN details[2] |->
                                 XmlElement(details[2][i][1], XmlDetailValue(details[2][i][2]))]))
    IN  XmlElement("error", description \o details_element)

\* mutant: details are emitted only when truthy
get_json_error_response_truthy(request, mimetype, status_code, context) ==
    LET details == DictGet(context, "details", None)
        body0 == <<<<"description", Str(DictGet(context, "error_msg", None)[2])>>>>
        body == IF details \notin {None, Str(""), Dict(<<>>)}
                THEN DictSet(body0, "details", details) ELSE body0
    IN  JsonDumps(Dict(body))

get_json_error_response(request, mimetype, status_code, context) ==
    LET details == DictGet(context, "details", None)
        body0 == <<<<"description", Str(DictGet(context, "error_msg", None)[2])>>>>
        body == IF ~IsNone(details) THEN DictSet(body0, "details", details) ELSE body0
    IN  JsonDumps(Dict(body))

get_plain_text_error_response(request, mimetype, status_code, context) ==
    <<S(DictGet(context, "error_msg", None)[2])>>

\* a render function supplied by a caller through extra_formats
caller_render(request, mimetype, status_code, context) ==
    <<P("caller"), S(mimetype), S(DictGet(context, "error_msg", None)[2])>>

JsonKey == "application/json; charset=utf-8"
XmlKey == "application/xml; charset=utf-8"
PlainKey == "text/plain; charset=utf-8"
HtmlKey == "text/html; charset=utf-8"

\* the module-level table as the module body builds it
ERROR_FORMATTERS_TABLE ==
    << <<JsonKey, "get_json_error_response">>,
       <<XmlKey, "get_xml_error_response">>,
       <<PlainKey, "get_plain_text_error_response">>,
       <<"", "get_plain_text_error_response">> >>

\* formatter(request, content_type, status_code, context)
CallFormatter(formatter, request, mimetype, status_code, context) ==
    CASE formatter = "get_json_error_response" ->
             get_json_error_response(request, mimetype, status_code, context)
      [] formatter = "get_xml_error_response" ->
             get_xml_error_response(request, mimetype, status_code, context)
      [] formatter = "get_plain_text_error_response" ->
             get_plain_text_error_response(request, mimetype, status_code, context)
      [] OTHER -> caller_render(request, mimetype, status_code, context)

\* --------------------------------------------------------------- outcomes
\* An outcome: the exception that escaped ("" for none), what was returned
\* ("response", the handler's result, or nothing), the Response, the Request as
\* the operation left it, and the calls made of the undecorated handler.
Outcome(raised, result, response, request, invocations) ==
    [raised |-> raised, result |-> result, response |-> response, request |-> request,
     invocations |-> invocations]

\* a Response; formatter records the render function that produced the body
Response(status_code, media_type, body, headers, formatter) ==
    [status_code |-> status_code, media_type |-> media_type, body |-> body,
     headers |-> headers, formatter |-> formatter]

NoResponse == Response(0, "", <<>>, <<>>, "")

Returned(response, request) == Outcome("", "response", response, request, <<>>)
Raised(exc, request) == Outcome(exc, "", NoResponse, request, <<>>)

\* lines 130-138: render the body and build the Response
RenderResponse(request, status_code, context, formatter, headers, content_type) ==
    Returned(Response(status_code, content_type,
                      CallFormatter(formatter, request, content_type, status_code, context),
                      IF IsNone(headers) THEN <<>> ELSE headers[2], formatter),
             request)

\* lines 125-128: look the formatter up
LookupFormatter(request, status_code, context, formatters, headers, content_type) ==
    IF DictHas(formatters, content_type)
    THEN RenderResponse(request, status_code, context,
                        DictGet(formatters, content_type, ""), headers, content_type)
    ELSE Raised("Exception", request)

\* mutant: the X-Requested-With header is not looked at
build_response_accept_only(request, status_code, context, formatters, headers) ==
    IF request.none THEN Raised("AttributeError", request)
    ELSE IF ~DictHas(formatters, "")
    THEN Raised("ValueError", request)
    ELSE LookupFormatter(request, status_code, context, formatters, headers,
             best_match(ListRemove(DictKeys(formatters), ""),
                        HeaderGet(request, "Accept", "*/*")))

build_response(request, status_code, context, formatters, headers) ==
    IF request.none THEN Raised("AttributeError", request)
    ELSE IF HeaderGet(request, "X-Requested-With", "") = "XMLHttpRequest"
    THEN LookupFormatter(request, status_code, context, formatters, headers, JsonKey)
    ELSE IF ~DictHas(formatters, "")
    THEN Raised("ValueError", request)
    ELSE LookupFormatter(request, status_code, context, formatters, headers,
             best_match(ListRemove(DictKeys(formatters), ""),
                        HeaderGet(request, "Accept", "*/*")))

\* lines 144-148: the table handed to build_response, and the two mappings
\* (the caller's and the module's) as the merge leaves them
\* mutant: the caller's mapping is updated in place, without the copy
MergeFormatters_no_copy(extra, builtin) ==
    IF ~IsNone(extra)
    THEN [formatters |-> DictUpdate(extra[2], builtin),
          extra_formats |-> Dict(DictUpdate(extra[2], builtin)),
          ERROR_FORMATTERS |-> builtin]
    ELSE [formatters |-> builtin, extra_formats |-> extra, ERROR_FORMATTERS |-> builtin]

MergeFormatters(extra, builtin) ==
    IF ~IsNone(extra)
    THEN [formatters |-> DictUpdate(extra[2], builtin), extra_formats |-> extra,
          ERROR_FORMATTERS |-> builtin]
    ELSE [formatters |-> builtin, extra_formats |-> extra, ERROR_FORMATTERS |-> builtin]

\* context.update({'error_msg': error_msg, 'details': details}) on context or {}
ErrorContext(context, error_msg, details) ==
    DictUpdate(IF IsNone(context) THEN <<>> ELSE context[2],
               << <<"error_msg", Str(error_msg)>>, <<"details", details>> >>)

build_error_response(req, status_code, error_msg, extra, headers, details, context) ==
    build_response(req, status_code, ErrorContext(context, error_msg, details),
                   MergeFormatters(extra, ERROR_FORMATTERS).formatters, headers)

\* ------------------------------------------------------------- handlers
\* A handler is its declared parameter names, whether it is a coroutine
\* function, and the guards wrapped around it, outermost first.  functools.wraps
\* makes inspect.signature of a wrapper the signature of the innermost handler.
Handler(sig, is_async) == [sig |-> sig, is_async |-> is_async, guards |-> <<>>]

NoHandler == [sig |-> {}, is_async |-> FALSE, guards |-> <<[name |-> "none", mime_types |-> <<>>]>>]

Guard(name, mime_types) == [name |-> name, mime_types |-> mime_types]

Wrapped(handler) == [raised |-> "", handler |-> handler]
WrapFailed(exc) == [raised |-> exc, handler |-> NoHandler]

\* mutant: only the plain parameter name is looked for
check_decorator_params_plain_only(handler, params) ==
    IF \E i \in DOMAIN params : params[i] \notin handler.sig THEN "ValueError" ELSE ""

\* "" when every needed parameter is declared (plain or underscore-prefixed)
check_decorator_params(handler, params) ==
    IF \E i \in DOMAIN params :
           params[i] \notin handler.sig /\ ("_" \o params[i]) \notin handler.sig
    THEN "ValueError"
    ELSE ""

AddGuard(handler, guard) == [handler EXCEPT !.guards = <<guard>> \o @]

authentication_required(handler) ==
    IF check_decorator_params(handler, <<"user", "request">>) # ""
    THEN WrapFailed(check_decorator_params(handler, <<"user", "request">>))
    ELSE Wrapped(AddGuard(handler, Guard("authentication_required", <<>>)))

produces(mime_types, handler) ==
    IF check_decorator_params(handler, <<"request">>) # ""
    THEN WrapFailed(check_decorator_params(handler, <<"request">>))
    ELSE Wrapped(AddGuard(handler, Guard("produces", mime_types)))

consumes(mime_types, handler) ==
    IF check_decorator_params(handler, <<"request">>) # ""
    THEN WrapFailed(check_decorator_params(handler, <<"request">>))
    ELSE Wrapped(AddGuard(handler, Guard("consumes", mime_types)))

\* ---------------------------------------------------------------- calls
\* wrapper(*args, **kwargs): args a sequence of values, kwargs ordered pairs.
\* ReqRef is the reference to the call's Request object; a user is None or
\* <<"u", name>>.
ReqRef == <<"r">>
HandlerResult == "handler result"

Call(args, kwargs) == [args |-> args, kwargs |-> kwargs]

\* kwargs.get(name, kwargs.get("_" + name))
KwargsGet(kwargs, name) == DictGet(kwargs, name, DictGet(kwargs, "_" \o name, None))

\* the Request object a guard finds in kwargs, NoRequest for None
KwargsRequest(kwargs, request) ==
    IF IsNone(KwargsGet(kwargs, "request")) THEN NoRequest ELSE request

\* a guard returning (or raising) what build_error_response did; the Request
\* object is the one the guard holds
ShortCircuit(built, request) == [built EXCEPT !.request = request]

\* handler(*args, **kwargs) on the undecorated handler, awaited when a coroutine
InvokeHandler(handler, call, request) ==
    Outcome("", HandlerResult, NoResponse, request,
            <<[args |-> call.args, kwargs |-> call.kwargs, awaited |-> handler.is_async]>>)

NotAcceptableMsg ==
    "The requested resource is only capable of generating content not acceptable according to the Accept headers sent in the request"

StrList(strings) == List([i \in DOMAIN strings |-> Str(strings[i])])

ContentTypeOf(parsed) == IF parsed.ok THEN parsed.mimetype ELSE ""

\* mutant: the header value is taken whole, parameters included
get_content_type_unparsed(request) == HeaderGet(request, "Content-Type", "")

\* get_content_type(request)[0]
get_content_type(request) ==
    IF HeaderGet(request, "Content-Type", Absent) = Absent THEN ""
    ELSE ContentTypeOf(parse_mime_type(HeaderGet(request, "Content-Type", Absent)))

\* the call of a decorated handler: each wrapper in turn, then the handler
RECURSIVE CallHandler(_, _, _)

\* lines 202-210, with the user and request the wrapper took from kwargs
AuthenticationCheck(handler, call, request, user, req) ==
    IF IsNone(user)
    THEN ShortCircuit(build_error_response(req, 401, "Authentication Required",
                                           None, None, None, None), request)
    ELSE CallHandler(handler, call, request)

authentication_required_wrapper(handler, call, request) ==
    AuthenticationCheck(handler, call, request, KwargsGet(call.kwargs, "user"),
                        KwargsRequest(call.kwargs, request))

\* mutant: the 406 carries no details
ProducesCheck_no_details(mime_types, handler, call, request) ==
    IF request.best_response_mimetype = ""
    THEN build_error_response(request, 406, NotAcceptableMsg, None, None, None, None)
    ELSE CallHandler(handler, call, request)

\* lines 226-237, with the request as setattr left it
ProducesCheck(mime_types, handler, call, request) ==
    IF request.best_response_mimetype = ""
    THEN build_error_response(request, 406, NotAcceptableMsg, None, None,
             Dict(<< <<"supported_mime_types", StrList(mime_types)>> >>), None)
    ELSE CallHandler(handler, call, request)

produces_wrapper(mime_types, handler, call, request) ==
    IF KwargsRequest(call.kwargs, request).none
    THEN Raised("AttributeError", request)
    ELSE ProducesCheck(mime_types, handler, call,
             [request EXCEPT !.best_response_mimetype =
                 best_match(mime_types, HeaderGet(request, "Accept", "*/*"))])

\* lines 253-262, with the request as setattr left it
ConsumesCheck(mime_types, handler, call, request) ==
    IF request.mimetype \notin Range(mime_types)
    THEN build_error_response(request, 415, "Unsupported request media type",
                              None, None, None, None)
    ELSE CallHandler(handler, call, request)

consumes_wrapper(mime_types, handler, call, request) ==
    IF KwargsRequest(call.kwargs, request).none
    THEN Raised("AttributeError", request)
    ELSE ConsumesCheck(mime_types, handler, call,
             [request EXCEPT !.mimetype = get_content_type(request)])

CallHandler(handler, call, request) ==
    IF handler.guards = <<>> THEN InvokeHandler(handler, call, request)
    ELSE IF Head(handler.guards).name = "authentication_required"
    THEN authentication_required_wrapper([handler EXCEPT !.guards = Tail(@)], call, request)
    ELSE IF Head(handler.guards).name = "produces"
    THEN produces_wrapper(Head(handler.guards).mime_types,
                          [handler EXCEPT !.guards = Tail(@)], call, request)
    ELSE consumes_wrapper(Head(handler.guards).mime_types,
                          [handler EXCEPT !.guards = Tail(@)], call, request)

\* ------------------------------------------------------- file downloads
\* Paths are sequences of one-character strings; os.path is posixpath.
RECURSIVE Concat(_)
Concat(cs) == IF cs = <<>> THEN "" ELSE Head(cs) \o Concat(Tail(cs))

\* str.split(sep) on a character sequence
RECURSIVE SplitOn(_, _, _)
SplitOn(cs, sep, cur) ==
    IF cs = <<>> THEN <<cur>>
    ELSE IF Head(cs) = sep THEN <<cur>> \o SplitOn(Tail(cs), sep, <<>>)
    ELSE SplitOn(Tail(cs), sep, Append(cur, Head(cs)))

Split(cs, sep) == SplitOn(cs, sep, <<>>)

\* sep.join(parts)
Join(parts, sep) == JoinWith(parts, <<sep>>)

StartsWith(cs, prefix) == Len(cs) >= Len(prefix) /\ SubSeq(cs, 1, Len(prefix)) = prefix

\* urllib.parse.unquote of one token of the requested path
UnquoteToken(t) ==
    CASE t = "%2e" -> "."
      [] t = "%2f" -> "/"
      [] t = "%5c" -> "\\"
      [] OTHER -> t

unquote(tokens) == [i \in DOMAIN tokens |-> UnquoteToken(tokens[i])]

Dot == <<".">>
DotDot == <<".", ".">>

RECURSIVE NormComps(_, _, _)
NormComps(comps, new_comps, initial_slashes) ==
    IF comps = <<>> THEN new_comps
    ELSE LET comp == Head(comps) IN
         IF comp = <<>> \/ comp = Dot
         THEN NormComps(Tail(comps), new_comps, initial_slashes)
         ELSE IF \/ comp # DotDot
                 \/ (initial_slashes = 0 /\ new_comps = <<>>)
                 \/ (new_comps # <<>> /\ new_comps[Len(new_comps)] = DotDot)
         THEN NormComps(Tail(comps), Append(new_comps, comp), initial_slashes)
         ELSE IF new_comps # <<>>
         THEN NormComps(Tail(comps), SubSeq(new_comps, 1, Len(new_comps) - 1), initial_slashes)
         ELSE NormComps(Tail(comps), new_comps, initial_slashes)

posixpath_normpath(path) ==
    IF path = <<>> THEN Dot
    ELSE LET initial_slashes ==
                 IF ~StartsWith(path, <<"/">>) THEN 0
                 ELSE IF StartsWith(path, <<"/", "/">>) /\ ~StartsWith(path, <<"/", "/", "/">>)
                 THEN 2 ELSE 1
             joined == Join(NormComps(Split(path, "/"), <<>>, initial_slashes), "/")
             result == [i \in 1..initial_slashes |-> "/"] \o joined
         IN  IF result = <<>> THEN Dot ELSE result

RECURSIVE lstrip(_, _)
lstrip(cs, ch) == IF cs # <<>> /\ Head(cs) = ch THEN lstrip(Tail(cs), ch) ELSE cs

\* posixpath.splitdrive: there are no drives
os_path_splitdrive(part) == <<<<>>, part>>

\* posixpath.split: (head, tail) around the last "/"
os_path_split(p) ==
    LET slashes == {i \in DOMAIN p : p[i] = "/"} IN
    IF slashes = {} THEN <<<<>>, p>>
    ELSE LET i == CHOOSE k \in slashes : \A j \in slashes : j <= k IN
         <<SubSeq(p, 1, i), SubSeq(p, i + 1, Len(p))>>

\* posixpath.join(a, b)
os_path_join(a, b) ==
    IF StartsWith(b, <<"/">>) THEN b
    ELSE IF a = <<>> \/ a[Len(a)] = "/" THEN a \o b
    ELSE a \o <<"/">> \o b

Replace(cs, old, new) == [i \in DOMAIN cs |-> IF cs[i] = old THEN new ELSE cs[i]]

\* mutant: only "." is dropped
SkipPart_curdir_only(part) == part = Dot

\* whether the loop of build_downloadfile_response drops the part
SkipPart(part) == part = Dot \/ part = DotDot

\* the loop rebuilding the path one component at a time
RECURSIVE Rebuild(_, _)
Rebuild(parts, newpath) ==
    IF parts = <<>> THEN newpath
    ELSE LET part1 == os_path_splitdrive(Head(parts))[2]
             part == os_path_split(part1)[2]
         IN  IF SkipPart(part) THEN Rebuild(Tail(parts), newpath)
             ELSE Rebuild(Tail(parts), Replace(os_path_join(newpath, part), "\\", "/"))

\* the file system: the regular files that exist, by absolute path
Files ==
    { <<"/", "b", "/", "a", "/", "a">>, <<"/", "b", "/", "a", "a">>,
      <<"/", "b", "/", "a", ":">>, <<"/", "a">>, <<"/", "a", "a">> }

\* the components the kernel walks for a path (no symbolic links)
RECURSIVE Walk(_, _)
Walk(comps, at) ==
    IF comps = <<>> THEN at
    ELSE IF Head(comps) = <<>> \/ Head(comps) = Dot THEN Walk(Tail(comps), at)
    ELSE IF Head(comps) = DotDot
    THEN Walk(Tail(comps), IF at = <<>> THEN at ELSE SubSeq(at, 1, Len(at) - 1))
    ELSE Walk(Tail(comps), Append(at, Head(comps)))

ResolvedPath(p) == <<"/">> \o Join(Walk(Split(p, "/"), <<>>), "/")

os_path_isfile(p) ==
    LET comps == Split(p, "/")
        last == comps[Len(comps)]
    IN  last # <<>> /\ last # Dot /\ last # DotDot /\ ResolvedPath(p) \in Files

Download(kind, response, path, newpath, fullpath) ==
    [kind |-> kind, response |-> response, path |-> path, newpath |-> newpath,
     fullpath |-> fullpath]

build_not_found_response(request) ==
    build_error_response(request, 404, "Page Not Found", None, None, None, None)

\* lines 393-401: not found, or the file by FileResponse or X-Sendfile
ServeFile(request, USE_XSENDFILE, path, newpath, fullpath) ==
    IF ~os_path_isfile(fullpath)
    THEN Download("not_found", build_not_found_response(request), path, newpath, fullpath)
    ELSE IF ~USE_XSENDFILE
    THEN Download("FileResponse",
                  Returned(Response(200, "application/octet-stream", <<>>, <<>>, ""), request),
                  path, newpath, fullpath)
    ELSE Download("X-Sendfile",
                  Returned(Response(200, "", <<>>, << <<"X-Sendfile", Concat(fullpath)>> >>, ""),
                           request),
                  path, newpath, fullpath)

\* mutant: the redirect is issued for an empty rebuilt path too
RedirectOrServe_whenever_differs(request, base_dir, USE_XSENDFILE, path, newpath) ==
    IF path # newpath
    THEN Download("redirect",
                  Returned(Response(302, "", <<>>, << <<"Location", Concat(newpath)>> >>, ""),
                           request),
                  path, newpath, <<>>)
    ELSE ServeFile(request, USE_XSENDFILE, path, newpath, os_path_join(base_dir, newpath))

\* lines 390-393: redirect to the rebuilt path when it differs
RedirectOrServe(request, base_dir, USE_XSENDFILE, path, newpath) ==
    IF newpath # <<>> /\ path # newpath
    THEN Download("redirect",
                  Returned(Response(302, "", <<>>, << <<"Location", Concat(newpath)>> >>, ""),
                           request),
                  path, newpath, <<>>)
    ELSE ServeFile(request, USE_XSENDFILE, path, newpath, os_path_join(base_dir, newpath))

\* lines 382-389: rebuild the normalized path
SanitizePath(request, base_dir, USE_XSENDFILE, path) ==
    RedirectOrServe(request, base_dir, USE_XSENDFILE, path, Rebuild(Split(path, "/"), <<>>))

build_downloadfile_response(request, file_path, base_dir, USE_XSENDFILE) ==
    SanitizePath(request, base_dir, USE_XSENDFILE,
                 lstrip(posixpath_normpath(unquote(file_path)), "/"))

\* ------------------------------------------------------------- inputs
Accepts ==
    {Absent, "*/*", "application/json", "application/xml", "text/plain", "text/html",
     "text/*", "image/png", "garbage", "image/png, garbage",
     "application/json;q=0.5, application/xml;q=0.9", "text/plain;q=0, */*;q=0.1"}

CallAccepts == {Absent, "application/json", "application/xml", "text/plain", "image/png"}

ContentTypes == {Absent, "application/json; charset=utf-8", "text/plain", "garbage"}

\* the requests sent to decorated handlers: <<Accept, Content-Type>>
CallRequests ==
    {<<accept, Absent>> : accept \in CallAccepts}
        \cup {<<Absent, ctype>> : ctype \in ContentTypes}
        \cup {<<"image/png", "text/plain">>, <<"text/plain", "application/json; charset=utf-8">>}

ProducesLists == {<<"application/xml">>, <<"text/html", "application/json">>}
ConsumesLists == {<<"application/json">>}

\* the undecorated handlers: declared parameter names, coroutine or not
BaseHandlers ==
    {Handler({"db", "user"}, TRUE), Handler({"request", "user"}, TRUE),
     Handler({"db", "_request", "_user"}, FALSE), Handler({"request"}, TRUE),
     Handler({"user"}, FALSE), Handler({}, FALSE)}

Users == {None, <<"u", "alice">>}

ExtraFormats ==
    {None,
     Dict(<< <<HtmlKey, "caller_render">> >>),
     Dict(<< <<JsonKey, "caller_render">> >>),
     Dict(<< <<HtmlKey, "caller_render">>, <<PlainKey, "caller_render">> >>)}

Details ==
    {None, Str(""), Str("boom"), Dict(<<>>),
     Dict(<< <<"supported_mime_types", StrList(<<"text/html">>)>> >>)}

ErrorCases == {<<404, "Page Not Found">>, <<403, "Forbidden">>}

ExtraHeaders == {None, Dict(<< <<"X-Extra", "1">> >>)}

Contexts == {None, Dict(<< <<"details", Str("stale")>> >>)}

\* how a call hands over an argument the handler declares: by keyword (under
\* the declared name, plain or underscore-prefixed), by position, or not at all
Passings == {"kw", "pos", "absent"}

\* the name under which the handler declares the parameter, "" when it does not
Declared(sig, name) ==
    IF name \in sig THEN name ELSE IF ("_" \o name) \in sig THEN "_" \o name ELSE ""

Positional(passing, value) == IF passing = "pos" THEN <<value>> ELSE <<>>

Keyword(passing, name, value) == IF passing = "kw" THEN << <<name, value>> >> ELSE <<>>

DbRef == <<"o", "db">>

MakeCall(sig, reqPass, userPass, user) ==
    Call(Positional(reqPass, ReqRef) \o Positional(userPass, user),
         Keyword(IF "db" \in sig THEN "kw" ELSE "absent", "db", DbRef)
             \o Keyword(reqPass, Declared(sig, "request"), ReqRef)
             \o Keyword(userPass, Declared(sig, "user"), user))

PathTokens == {"/", ".", "a", "\\", ":", "%2e"}

RECURSIVE SeqsUpTo(_, _)
SeqsUpTo(alphabet, n) ==
    IF n = 0 THEN {<<>>}
    ELSE LET shorter == SeqsUpTo(alphabet, n - 1) IN
         shorter \cup {Append(s, x) : s \in {t \in shorter : Len(t) = n - 1}, x \in alphabet}

FilePaths == SeqsUpTo(PathTokens, MaxPathLen)

BaseDirs == {<<"/", "b">>, <<"/", "b", "/">>}

\* ------------------------------------------------------------ the machine
NoOutcome == Outcome("", "", NoResponse, NoRequest, <<>>)
NoDownload == Download("", NoOutcome, <<>>, <<>>, <<>>)
NoArgs == [none |-> TRUE]

Init ==
    /\ pc = "idle"
    /\ op = "idle"
    /\ op_args = NoArgs
    /\ ERROR_FORMATTERS = ERROR_FORMATTERS_TABLE
    /\ extra_formats = None
    /\ decorated = NoHandler
    /\ imported = "no"
    /\ routes = <<>>
    /\ outcome = NoOutcome
    /\ download = NoDownload

\* the handlers a decorator can be applied to: a fresh function, or the one
\* decorated last
Decorable ==
    BaseHandlers \cup {h \in {decorated} : h # NoHandler /\ Len(h.guards) < MaxGuards}

Decorated(name, target, wrapped) ==
    /\ pc' = "done"
    /\ op' = name
    /\ op_args' = [target |-> target]
    /\ decorated' = wrapped.handler
    /\ outcome' = Raised(wrapped.raised, NoRequest)
    /\ download' = NoDownload
    /\ UNCHANGED <<ERROR_FORMATTERS, extra_formats, imported, routes>>

ApplyAuthenticationRequired ==
    /\ pc = "idle"
    /\ \E target \in Decorable :
        Decorated("authentication_required", target, authentication_required(target))

ApplyProduces ==
    /\ pc = "idle"
    /\ \E target \in Decorable, mime_types \in ProducesLists :
        Decorated("produces", target, produces(mime_types, target))

ApplyConsumes ==
    /\ pc = "idle"
    /\ \E target \in Decorable, mime_types \in ConsumesLists :
        Decorated("consumes", target, consumes(mime_types, target))

\* a call of the decorated handler
CallWrapper ==
    /\ pc = "idle"
    /\ decorated # NoHandler
    /\ \E reqPass \in {"kw", "pos"}, userPass \in Passings, user \in Users,
         headers \in CallRequests :
        /\ userPass = "absent" => user = None
        /\ Declared(decorated.sig, "user") = "" => userPass = "absent"
        /\ pc' = "done"
        /\ op' = "call"
        /\ op_args' = [call |-> MakeCall(decorated.sig, reqPass, userPass, user),
                       request |-> Request(Absent, headers[1], headers[2])]
        /\ outcome' = CallHandler(decorated, MakeCall(decorated.sig, reqPass, userPass, user),
                                  Request(Absent, headers[1], headers[2]))
        /\ download' = NoDownload
        /\ UNCHANGED <<ERROR_FORMATTERS, extra_formats, decorated, imported, routes>>

\* the module body of workspace/routes.py: the decorators run bottom-up, then
\* workspace_router.get("/") registers what they returned
get_workspace_list_route == Handler({"db", "user"}, TRUE)

ThenProduces(mime_types, inner) ==
    IF inner.raised # "" THEN inner ELSE produces(mime_types, inner.handler)

RoutesEndpoint ==
    ThenProduces(<<"application/json">>, authentication_required(get_workspace_list_route))

Register(path, wrapped) ==
    IF wrapped.raised = "" THEN Append(routes, [path |-> path, endpoint |-> wrapped.handler])
    ELSE routes

ImportRoutes ==
    /\ pc = "idle"
    /\ imported = "no"
    /\ pc' = "done"
    /\ op' = "import"
    /\ op_args' = NoArgs
    /\ imported' = IF RoutesEndpoint.raised = "" THEN "ok" ELSE RoutesEndpoint.raised
    /\ routes' = Register("/", RoutesEndpoint)
    /\ outcome' = Raised(RoutesEndpoint.raised, NoRequest)
    /\ download' = NoDownload
    /\ UNCHANGED <<ERROR_FORMATTERS, extra_formats, decorated>>

\* the endpoint registered for a path
Endpoint(path) == routes[CHOOSE i \in DOMAIN routes : routes[i].path = path].endpoint

\* GET / on workspace_router: the framework calls the registered endpoint with
\* the parameters its signature declares, by keyword
ServeWorkspaceList ==
    /\ pc = "idle"
    /\ imported # "no"
    /\ \E user \in Users, accept \in CallAccepts :
        /\ pc' = "done"
        /\ op' = "serve_workspace_list"
        /\ op_args' = [call |-> MakeCall(get_workspace_list_route.sig, "absent", "kw", user),
                       request |-> Request(Absent, accept, Absent)]
        /\ outcome' =
               IF \E i \in DOMAIN routes : routes[i].path = "/"
               THEN CallHandler(Endpoint("/"),
                                MakeCall(get_workspace_list_route.sig, "absent", "kw", user),
                                Request(Absent, accept, Absent))
               ELSE Outcome("", "no route", NoResponse, Request(Absent, accept, Absent), <<>>)
        /\ download' = NoDownload
        /\ UNCHANGED <<ERROR_FORMATTERS, extra_formats, decorated, imported, routes>>

BuildErrorResponse ==
    /\ pc = "idle"
    /\ \E xrw \in {Absent, "XMLHttpRequest", "fetch"}, accept \in Accepts,
         case \in ErrorCases, extra \in ExtraFormats, headers \in ExtraHeaders,
         details \in Details, context \in Contexts :
        /\ pc' = "done"
        /\ op' = "build_error_response"
        /\ op_args' = [request |-> Request(xrw, accept, Absent), status_code |-> case[1],
                       error_msg |-> case[2], extra_formats |-> extra, headers |-> headers,
                       details |-> details, context |-> context]
        /\ outcome' = build_error_response(Request(xrw, accept, Absent), case[1], case[2],
                                           extra, headers, details, context)
        /\ extra_formats' = MergeFormatters(extra, ERROR_FORMATTERS).extra_formats
        /\ ERROR_FORMATTERS' = MergeFormatters(extra, ERROR_FORMATTERS).ERROR_FORMATTERS
        /\ download' = NoDownload
        /\ UNCHANGED <<decorated, imported, routes>>

DownloadFile ==
    /\ pc = "idle"
    /\ \E file_path \in FilePaths, base_dir \in BaseDirs, USE_XSENDFILE \in BOOLEAN :
        /\ pc' = "done"
        /\ op' = "build_downloadfile_response"
        /\ op_args' = [file_path |-> file_path, base_dir |-> base_dir,
                       USE_XSENDFILE |-> USE_XSENDFILE]
        /\ download' = build_downloadfile_response(Request(Absent, Absent, Absent), file_path,
                                                   base_dir, USE_XSENDFILE)
        /\ outcome' = NoOutcome
        /\ UNCHANGED <<ERROR_FORMATTERS, extra_formats, decorated, imported, routes>>

\* the operation's result has gone back to its caller: the per-request objects
\* are dropped, the module-level state stays
Respond ==
    /\ pc = "done"
    /\ pc' = "idle"
    /\ op' = "idle"
    /\ op_args' = NoArgs
    /\ extra_formats' = None
    /\ outcome' = NoOutcome
    /\ download' = NoDownload
    /\ UNCHANGED <<ERROR_FORMATTERS, decorated, imported, routes>>

NextGuards ==
    \/ ApplyAuthenticationRequired
    \/ ApplyProduces
    \/ ApplyConsumes
    \/ CallWrapper
    \/ ImportRoutes
    \/ ServeWorkspaceList
    \/ Respond

NextErrors == BuildErrorResponse \/ Respond

NextDownload == DownloadFile \/ Respond

Next == NextGuards \/ BuildErrorResponse \/ DownloadFile

Spec == Init /\ [][Next]_vars
SpecGuards == Init /\ [][NextGuards]_vars
SpecErrors == Init /\ [][NextErrors]_vars
SpecDownload == Init /\ [][NextDownload]_vars

\* ---------------------------------------------------------- properties
\* the user a call supplies, by keyword or by position; None when it supplies none
SuppliedUser(call) ==
    IF \E i \in DOMAIN call.kwargs : call.kwargs[i][1] \in {"user", "_user"}
    THEN call.kwargs[CHOOSE i \in DOMAIN call.kwargs :
                         call.kwargs[i][1] \in {"user", "_user"}][2]
    ELSE IF \E i \in DOMAIN call.args : call.args[i][1] = "u"
    THEN call.args[CHOOSE i \in DOMAIN call.args : call.args[i][1] = "u"]
    ELSE None

\* whether the call hands the Request over by keyword
RequestByKeyword(call) ==
    \E i \in DOMAIN call.kwargs : call.kwargs[i][1] \in {"request", "_request"}

OutermostGuard == Head(decorated.guards)

CalledThrough(name) == pc = "done" /\ op = "call" /\ OutermostGuard.name = name

HasText(body, text) == \E i \in DOMAIN body : body[i] = S(text)

HandlerRanOnce ==
    /\ outcome.raised = ""
    /\ outcome.result = HandlerResult
    /\ outcome.invocations = <<[args |-> op_args.call.args, kwargs |-> op_args.call.kwargs,
                                awaited |-> decorated.is_async]>>

\* C1: a call of a handler wrapped by authentication_required that supplies no
\* authenticated user (None or absent) returns the 401 "Authentication Required"
\* response, never invokes the handler, and lets no exception escape.
C1_NoUserGets401 ==
    (CalledThrough("authentication_required") /\ IsNone(SuppliedUser(op_args.call)))
        => /\ outcome.raised = ""
           /\ outcome.result = "response"
           /\ outcome.response.status_code = 401
           /\ HasText(outcome.response.body, "Authentication Required")
           /\ outcome.invocations = <<>>

\* C2: a call of a handler wrapped by authentication_required (and by nothing
\* else) that supplies an authenticated user, by position or by keyword, invokes
\* the handler exactly once with the same arguments and returns its result, not
\* a 401 response.
C2_UserReachesHandler ==
    (/\ CalledThrough("authentication_required")
     /\ Len(decorated.guards) = 1
     /\ ~IsNone(SuppliedUser(op_args.call)))
        => HandlerRanOnce /\ outcome.response.status_code # 401

\* the parameters a guard needs its handler to declare
NeededParams(name) == IF name = "authentication_required" THEN {"user", "request"}
                      ELSE {"request"}

Lacks(sig, name) == \E n \in NeededParams(name) : n \notin sig /\ ("_" \o n) \notin sig

\* C3: applying a guard to a handler whose signature lacks a parameter the guard
\* needs (plain or underscore-prefixed) raises at wrap time and yields no wrapper;
\* a handler declaring all of them is wrapped without error, the guard outermost.
C3_WrapTimeCheck ==
    (pc = "done" /\ op \in {"authentication_required", "produces", "consumes"})
        => IF Lacks(op_args.target.sig, op)
           THEN outcome.raised = "ValueError" /\ decorated = NoHandler
           ELSE /\ outcome.raised = ""
                /\ decorated.sig = op_args.target.sig
                /\ decorated.is_async = op_args.target.is_async
                /\ OutermostGuard.name = op
                /\ Tail(decorated.guards) = op_args.target.guards

\* a guard refused a handler that declares user but no request
C3_Witness ==
    /\ pc = "done"
    /\ op = "authentication_required"
    /\ "user" \in op_args.target.sig
    /\ outcome.raised = "ValueError"

\* C4: importing workspace/routes.py registers the GET / route, and a request to
\* it with an acceptable Accept header and no authenticated user gets a 401
\* without the handler body running.
C4_WorkspaceListRouteGuarded ==
    /\ (imported # "no" =>
            imported = "ok" /\ (\E i \in DOMAIN routes : routes[i].path = "/"))
    /\ (/\ pc = "done" /\ op = "serve_workspace_list"
        /\ IsNone(SuppliedUser(op_args.call))
        /\ best_match(<<"application/json">>, HeaderGet(op_args.request, "Accept", "*/*")) # "")
           => outcome.response.status_code = 401 /\ outcome.invocations = <<>>

Missing == <<"<missing>">>

Texts(tokens) == [i \in DOMAIN tokens |-> tokens[i][2]]

IsText(token) == token[1] = "s"

\* the supported_mime_types list a JSON error body carries under details
JsonSupported(body) ==
    IF /\ DictHas(JsonLoads(body)[2], "details")
       /\ DictGet(JsonLoads(body)[2], "details", None)[1] = "d"
       /\ DictHas(DictGet(JsonLoads(body)[2], "details", None)[2], "supported_mime_types")
    THEN Texts(DictGet(DictGet(JsonLoads(body)[2], "details", None)[2],
                       "supported_mime_types", None)[2])
    ELSE Missing

\* the text nodes inside the supported_mime_types element of an XML error body
XmlSupported(body) ==
    IF \E i \in DOMAIN body : body[i] = P("<supported_mime_types>")
    THEN Texts(SelectSeq(
             SubSeq(body,
                    CHOOSE i \in DOMAIN body : body[i] = P("<supported_mime_types>"),
                    CHOOSE i \in DOMAIN body : body[i] = P("</supported_mime_types>")),
             IsText))
    ELSE Missing

SupportedInBody(response) ==
    IF response.media_type = JsonKey THEN JsonSupported(response.body)
    ELSE XmlSupported(response.body)

Negotiated == best_match(OutermostGuard.mime_types, HeaderGet(op_args.request, "Accept", "*/*"))

\* C5 as claimed, for calls that pass the request by keyword: when the Accept
\* header matches none of mime_types the produces wrapper answers 406 with a body
\* that lists supported_mime_types = mime_types whatever the error format, and
\* does not invoke the handler; otherwise the handler runs and
\* request.best_response_mimetype is the negotiated type.
C5_Claimed ==
    (CalledThrough("produces") /\ RequestByKeyword(op_args.call))
        => IF Negotiated = ""
           THEN /\ outcome.response.status_code = 406
                /\ SupportedInBody(outcome.response) = OutermostGuard.mime_types
                /\ outcome.invocations = <<>>
           ELSE Len(decorated.guards) = 1 =>
                    /\ HandlerRanOnce
                    /\ outcome.request.best_response_mimetype = Negotiated

\* C5 (amended): as claimed, except that only the JSON and XML error bodies list
\* supported_mime_types; the plain-text body (text/plain or the fallback type "")
\* is the message alone.  A call that does not pass the request by keyword
\* raises AttributeError without invoking the handler.
C5_NotAcceptable ==
    CalledThrough("produces")
        => IF ~RequestByKeyword(op_args.call)
           THEN outcome.raised = "AttributeError" /\ outcome.invocations = <<>>
           ELSE IF Negotiated = ""
           THEN /\ outcome.raised = ""
                /\ outcome.response.status_code = 406
                /\ outcome.invocations = <<>>
                /\ outcome.request.best_response_mimetype = ""
                /\ IF outcome.response.media_type \in {JsonKey, XmlKey}
                   THEN SupportedInBody(outcome.response) = OutermostGuard.mime_types
                   ELSE /\ outcome.response.media_type \in {PlainKey, ""}
                        /\ outcome.response.body = <<S(NotAcceptableMsg)>>
           ELSE Len(decorated.guards) = 1 =>
                    /\ HandlerRanOnce
                    /\ outcome.request.best_response_mimetype = Negotiated

\* a 406 whose XML body lists both supported types
C5_Witness ==
    /\ CalledThrough("produces")
    /\ outcome.response.status_code = 406
    /\ outcome.response.media_type = XmlKey
    /\ SupportedInBody(outcome.response) = <<"text/html", "application/json">>

\* the content type a Content-Type header value stands for: parameters
\* dropped, "" when the header is missing or malformed
ExpectedType(value) ==
    CASE value = "application/json; charset=utf-8" -> "application/json"
      [] value = "text/plain" -> "text/plain"
      [] OTHER -> ""

RequestType == ExpectedType(op_args.request.headers["Content-Type"])

\* C6 as claimed, for calls that pass the request by keyword: an unsupported
\* Content-Type gets 415 "Unsupported request media type", the handler is not
\* invoked and no mimetype attribute is attached to the request; a supported one
\* is attached as request.mimetype and the handler runs.
C6_Claimed ==
    (CalledThrough("consumes") /\ RequestByKeyword(op_args.call))
        => IF RequestType \notin Range(OutermostGuard.mime_types)
           THEN /\ outcome.response.status_code = 415
                /\ HasText(outcome.response.body, "Unsupported request media type")
                /\ outcome.invocations = <<>>
                /\ outcome.request.mimetype = Unset
           ELSE /\ outcome.request.mimetype = RequestType
                /\ Len(decorated.guards) = 1 => HandlerRanOnce

\* C6 (amended): as claimed, except that request.mimetype is attached before the
\* check, so the rejected request carries it too ("" for a missing or malformed
\* header).  A call that does not pass the request by keyword raises
\* AttributeError without invoking the handler.
C6_UnsupportedMediaType ==
    CalledThrough("consumes")
        => IF ~RequestByKeyword(op_args.call)
           THEN outcome.raised = "AttributeError" /\ outcome.invocations = <<>>
           ELSE /\ outcome.request.mimetype = RequestType
                /\ IF RequestType \notin Range(OutermostGuard.mime_types)
                   THEN /\ outcome.raised = ""
                        /\ outcome.response.status_code = 415
                        /\ HasText(outcome.response.body, "Unsupported request media type")
                        /\ outcome.invocations = <<>>
                   ELSE Len(decorated.guards) = 1 => HandlerRanOnce

\* a 415 for a well-formed but unsupported type, which the request then carries
C6_Witness ==
    /\ CalledThrough("consumes")
    /\ outcome.response.status_code = 415
    /\ outcome.request.mimetype = "text/plain"

ErrorDone == pc = "done" /\ op = "build_error_response"

CallerKeys == IF IsNone(op_args.extra_formats) THEN {} ELSE Range(DictKeys(op_args.extra_formats[2]))

BuiltinKeys == Range(DictKeys(ERROR_FORMATTERS_TABLE))

RenderedByCaller(response) == response.body # <<>> /\ Head(response.body) = P("caller")

MappingsUnchanged ==
    extra_formats = op_args.extra_formats /\ ERROR_FORMATTERS = ERROR_FORMATTERS_TABLE

\* C7 as claimed: when extra_formats has a key equal to a built-in key, the
\* caller's render function produces the body for that content type; the
\* built-in table and the caller's mapping are unchanged by the call.
C7_Claimed ==
    ErrorDone
        => /\ outcome.response.media_type \in CallerKeys \cap BuiltinKeys
                  => /\ outcome.response.formatter =
                            DictGet(op_args.extra_formats[2], outcome.response.media_type, "")
                     /\ RenderedByCaller(outcome.response)
           /\ MappingsUnchanged

\* C7 (amended): the built-in formatters are merged over the caller's
\* extra_formats: for a built-in content-type key the built-in render function
\* produces the body even when extra_formats has that key, and a caller's
\* function is used only for a key that is not built in; the built-in table and
\* the caller's mapping are unchanged by the call.
C7_BuiltinsWin ==
    ErrorDone
        => /\ outcome.raised = ""
           /\ IF outcome.response.media_type \in BuiltinKeys
              THEN /\ outcome.response.formatter =
                          DictGet(ERROR_FORMATTERS_TABLE, outcome.response.media_type, "")
                   /\ ~RenderedByCaller(outcome.response)
              ELSE /\ outcome.response.media_type \in CallerKeys
                   /\ outcome.response.formatter =
                          DictGet(op_args.extra_formats[2], outcome.response.media_type, "")
                   /\ RenderedByCaller(outcome.response)
           /\ MappingsUnchanged

\* a JSON response rendered by the built-in although the caller supplied a
\* function for the JSON key
C7_Witness ==
    /\ ErrorDone
    /\ JsonKey \in CallerKeys
    /\ outcome.response.media_type = JsonKey
    /\ outcome.response.formatter = "get_json_error_response"

\* the formatter table of the finished call, and its keys without the fallback
Registered == MergeFormatters(op_args.extra_formats, ERROR_FORMATTERS_TABLE).formatters

NonFallbackKeys == ListRemove(DictKeys(Registered), "")

Resolved ==
    IF op_args.request.headers["X-Requested-With"] = "XMLHttpRequest"
    THEN JsonKey
    ELSE best_match(NonFallbackKeys, HeaderGet(op_args.request, "Accept", "*/*"))

RenderedBy(key) ==
    outcome.response.body =
        CallFormatter(DictGet(Registered, key, ""), op_args.request, key, op_args.status_code,
                      ErrorContext(op_args.context, op_args.error_msg, op_args.details))

JsonBody == JsonLoads(outcome.response.body)[2]

JsonRendered == ErrorDone /\ outcome.response.formatter = "get_json_error_response"

\* C9 as claimed: the JSON body has description = error_msg, has details iff
\* details is neither None nor empty (empty string, empty mapping), and with
\* details=None parses back to exactly {"description": error_msg}.
C9_Claimed ==
    JsonRendered
        => /\ DictGet(JsonBody, "description", None) = Str(op_args.error_msg)
           /\ DictHas(JsonBody, "details")
                  <=> op_args.details \notin {None, Str(""), Dict(<<>>)}
           /\ IsNone(op_args.details)
                  => JsonBody = << <<"description", Str(op_args.error_msg)>> >>

\* C9 (amended): the JSON body has description = error_msg, has details (equal
\* to the details argument, an empty string or empty mapping included) iff
\* details is not None, and with details=None parses back to exactly
\* {"description": error_msg}.
C9_JsonBody ==
    JsonRendered
        => /\ DictGet(JsonBody, "description", None) = Str(op_args.error_msg)
           /\ DictHas(JsonBody, "details") <=> ~IsNone(op_args.details)
           /\ ~IsNone(op_args.details)
                  => DictGet(JsonBody, "details", None) = op_args.details
           /\ IsNone(op_args.details)
                  => JsonBody = << <<"description", Str(op_args.error_msg)>> >>

\* a JSON body carrying an empty details mapping
C9_Witness ==
    /\ JsonRendered
    /\ op_args.details = Dict(<<>>)
    /\ DictGet(JsonBody, "details", None) = Dict(<<>>)

DownloadDone == pc = "done" /\ op = "build_downloadfile_response"

Served == download.kind \in {"FileResponse", "X-Sendfile"}

\* a relative path with no ".." segment, no absolute component, no backslash
SafeRelative(p) ==
    /\ ~StartsWith(p, <<"/">>)
    /\ \A i \in DOMAIN p : p[i] # "\\"
    /\ \A comp \in Range(Split(p, "/")) : comp # DotDot

\* the file the kernel opens for p lies under base_dir
Inside(p, base_dir) ==
    StartsWith(ResolvedPath(p), ResolvedPath(base_dir) \o <<"/">>)

\* C10: whatever file_path and base_dir, a file is served (FileResponse or
\* X-Sendfile) only from base_dir joined with a relative path that has no ".."
\* segment and no absolute component, so the served file lies inside base_dir;
\* every other input yields a 302 redirect or a 404.
C10_NeverServesOutsideBaseDir ==
    DownloadDone
        => IF Served
           THEN /\ SafeRelative(download.newpath)
                /\ download.fullpath \in
                       {op_args.base_dir \o <<"/">> \o download.newpath,
                        op_args.base_dir \o download.newpath}
                /\ StartsWith(download.fullpath, op_args.base_dir)
                /\ Inside(download.fullpath, op_args.base_dir)
                /\ download.response.response.status_code = 200
           ELSE \/ download.kind = "redirect" /\ download.response.response.status_code = 302
                \/ download.kind = "not_found" /\ download.response.response.status_code = 404

\* a file served by X-Sendfile for a request whose path had to be normalized
C10_Witness ==
    /\ DownloadDone
    /\ download.kind = "X-Sendfile"
    /\ \E i \in DOMAIN op_args.file_path : op_args.file_path[i] = "%2e"
    /\ download.fullpath \in Files

\* the URL-decoded, POSIX-normalized, leading-slash-stripped input of the
\* finished call, and the path reconstructed from it component by component
NormalizedInput == lstrip(posixpath_normpath(unquote(op_args.file_path)), "/")

Reconstructed == Rebuild(Split(NormalizedInput, "/"), <<>>)

RedirectsTo(target) ==
    /\ download.kind = "redirect"
    /\ download.response.raised = ""
    /\ download.response.response.status_code = 302
    /\ download.response.response.headers = << <<"Location", Concat(target)>> >>

\* 404 when no regular file exists at base_dir joined with relative, else that
\* file is served
NotFoundOrServes(relative) ==
    IF os_path_isfile(os_path_join(op_args.base_dir, relative))
    THEN /\ Served
         /\ download.fullpath = os_path_join(op_args.base_dir, relative)
         /\ download.kind = IF op_args.USE_XSENDFILE THEN "X-Sendfile" ELSE "FileResponse"
    ELSE /\ download.kind = "not_found"
         /\ download.response.response.status_code = 404

\* C11 as claimed: a 302 whose Location is the reconstructed path is returned
\* exactly when the reconstructed path differs from the normalized input; when
\* the two are equal there is no redirect, and the answer is 404 if no regular
\* file exists at base_dir joined with the path, else that file.
C11_Claimed ==
    DownloadDone
        => IF Reconstructed # NormalizedInput
           THEN RedirectsTo(Reconstructed)
           ELSE NotFoundOrServes(NormalizedInput)

\* C11 (amended): a 302 whose Location is the reconstructed path is returned
\* exactly when the reconstructed path is not empty and differs from the
\* normalized input; otherwise there is no redirect, and the answer is 404 if no
\* regular file exists at base_dir joined with the reconstructed path, else that
\* file.  An empty reconstructed path (the input normalizes to ".", or to ".."
\* segments only) gets 404.
C11_RedirectExactly ==
    DownloadDone
        => IF Reconstructed # <<>> /\ Reconstructed # NormalizedInput
           THEN RedirectsTo(Reconstructed)
           ELSE /\ NotFoundOrServes(Reconstructed)
                /\ Reconstructed = <<>> => download.kind = "not_found"

\* a traversal attempt answered by a redirect to the path without its ".."
C11_Witness ==
    /\ DownloadDone
    /\ op_args.file_path = <<"%2e", ".", "/", "a">>
    /\ RedirectsTo(<<"a">>)

====
